---- MODULE Spec2Model ----
(***************************************************************************)
(* A model of checkout.py: the cache-seeded checkout of a Mercurial        *)
(* repository (local archive, remote index, full clone) and the revision   *)
(* synchronisation that follows it.                                        *)
(*                                                                         *)
(* Python strings are sequences of one-character strings.  Python values   *)
(* True/False/None and exception classes are the strings "True", "False",  *)
(* "None", "URLError", ...                                                 *)
(***************************************************************************)
EXTENDS Integers, Sequences, FiniteSets, TLC

(***************************************************************************)
(* Bounds of the model.                                                    *)
(***************************************************************************)
\* length of the longest remote resource a download is given
MaxResourceLen == 3
\* the chunk size download_file reads with (its grabchunk parameter)
grabchunk == 2
\* the largest number of segments urljoin is given
MaxSegments == 3

Bytes == {1, 2}

\* every byte string of at most n bytes
RECURSIVE SeqsUpTo(_)
SeqsUpTo(n) ==
    IF n = 0 THEN {<<>>}
    ELSE LET shorter == SeqsUpTo(n - 1)
         IN  shorter \cup {Append(s, b) : s \in {t \in shorter : Len(t) = n - 1}, b \in Bytes}

\* the remote resources an HTTP server may serve to download_file
ResourceSet == SeqsUpTo(MaxResourceLen)

(***************************************************************************)
(* Strings.                                                                *)
(***************************************************************************)
\* str.find(sub, i): the first position >= i (1-based) where sub occurs in s, 0 if none
RECURSIVE Find(_, _, _)
Find(s, sub, i) ==
    IF i + Len(sub) - 1 > Len(s) THEN 0
    ELSE IF SubSeq(s, i, i + Len(sub) - 1) = sub THEN i
    ELSE Find(s, sub, i + 1)

\* the Python expression  sub in s
Contains(s, sub) == Find(s, sub, 1) > 0

\* str.rstrip('/')
RECURSIVE rstrip(_)
rstrip(s) ==
    IF s # <<>> /\ s[Len(s)] = "/" THEN rstrip(SubSeq(s, 1, Len(s) - 1)) ELSE s

\* "/".join(parts)
RECURSIVE join(_)
join(parts) ==
    IF parts = <<>> THEN <<>>
    ELSE IF Len(parts) = 1 THEN parts[1]
    ELSE parts[1] \o <<"/">> \o join(Tail(parts))

\* urlparse.urlparse(url): scheme, netloc and path of  scheme://netloc/path
urlparse(url) ==
    LET c        == Find(url, <<":">>, 1)
        scheme   == IF c > 1 THEN SubSeq(url, 1, c - 1) ELSE <<>>
        rest     == IF c > 1 THEN SubSeq(url, c + 1, Len(url)) ELSE url
        hasNet   == Len(rest) >= 2 /\ SubSeq(rest, 1, 2) = <<"/", "/">>
        afterNet == IF hasNet THEN SubSeq(rest, 3, Len(rest)) ELSE rest
        sl       == Find(afterNet, <<"/">>, 1)
    IN  [scheme |-> scheme,
         netloc |-> IF ~hasNet THEN <<>>
                    ELSE IF sl = 0 THEN afterNet ELSE SubSeq(afterNet, 1, sl - 1),
         path   |-> IF ~hasNet THEN rest
                    ELSE IF sl = 0 THEN <<>> ELSE SubSeq(afterNet, sl, Len(afterNet))]

\* get_alias(url): the url stripped of the protocol
get_alias(url) == LET o == urlparse(url) IN o.netloc \o o.path

\* urljoin(*args): strip the right-most slashes of every part and join with "/"
urljoin_unstripped(parts) == join(parts)
urljoin(parts) == join([i \in 1..Len(parts) |-> rstrip(parts[i])])

(***************************************************************************)
(* Program constants, abbreviated: one token stands for the literal.       *)
(***************************************************************************)
TC_NAMESPACE == <<"tc-vcs.v1.clones">>
TC_QUEUE     == <<"https://queue.taskcluster.net/v1">>
TC_INDEX     == <<"https://index.taskcluster.net/v1">>

\* the strings 'task', 'artifacts', 'public/' and '.tar.gz', one token each
TaskSeg      == <<"task">>
ArtifactsSeg == <<"artifacts">>
PublicPrefix == <<"public", "/">>
TarGzSuffix  == <<".tar.gz">>

(***************************************************************************)
(* The repositories of the world.                                          *)
(***************************************************************************)
\* repository urls: RepoUrl is the repository being checked out, OtherUrl another one
RepoUrl  == <<"s", ":", "/", "/", "x", "/", "a">>
OtherUrl == <<"s", ":", "/", "/", "x", "/", "b">>
Urls     == {RepoUrl, OtherUrl}
\* the value None of an optional url argument
NoUrl    == <<"None">>

\* changesets: r1 is the root, r2 its child on branch default, r3 its child on
\* branch stable; r9 is a changeset no repository has
Revs      == {"r1", "r2", "r3"}
UnknownRev == "r9"
Branches  == {"default", "stable"}
BranchOf(r)  == IF r = "r3" THEN "stable" ELSE "default"
RevNum(r)    == CASE r = "r1" -> 1 [] r = "r2" -> 2 [] r = "r3" -> 3 [] OTHER -> 0
Ancestors(r) == IF r \in Revs THEN {"r1", r} ELSE {}
AncestorsOf(S) == UNION {Ancestors(r) : r \in S}

\* the changesets each remote repository holds
RemoteRevs(url) ==
    IF url = RepoUrl THEN {"r1", "r2", "r3"}
    ELSE IF url = OtherUrl THEN {"r1", "r3"}
    ELSE {}

\* the changesets of revs on a branch, and the tip of a branch
OnBranch(revs, b) == {r \in revs : BranchOf(r) = b}
Tip(S) == CHOOSE r \in S : \A q \in S : RevNum(q) <= RevNum(r)

\* hg's resolution of a revision argument (a changeset id or a branch name)
\* in a set of changesets: the set holding the changeset it names, {} if none
Resolve(revs, rev) ==
    IF rev \in revs THEN {rev}
    ELSE IF rev \in Branches /\ OnBranch(revs, rev) # {} THEN {Tip(OnBranch(revs, rev))}
    ELSE {}

(***************************************************************************)
(* The file system: directories are trees, files are byte strings.         *)
(***************************************************************************)
\* a directory: exists, has .hg/hgrc, the hgrc's text (its default path),
\* the changesets of its store, the working directory's parent and branch,
\* and the names of its top level (os.listdir)
NoDir == [exists |-> FALSE, hg |-> FALSE, hgrc |-> <<>>, revs |-> {},
          parent |-> "null", branch |-> "default", top |-> {}]
PlainDir == [NoDir EXCEPT !.exists = TRUE]
Repo(url, revs, parent) ==
    [exists |-> TRUE, hg |-> TRUE, hgrc |-> url, revs |-> revs,
     parent |-> parent, branch |-> BranchOf(parent), top |-> {".hg"}]

NoFile == [exists |-> FALSE, data |-> <<>>]
File(bytes) == [exists |-> TRUE, data |-> bytes]

\* archives: the byte strings that are gzip-compressed tars.  Each holds one
\* top-level folder (TarWrapper) with the entries of a repository (TarEntries);
\* TarNested is a repository with an entry named like the archive's folder
TarDefault == <<1, 2, 1>>
TarStable  == <<2, 1>>
TarOther   == <<2, 2>>
TarNested  == <<1, 1>>
Tars       == {TarDefault, TarStable, TarOther, TarNested}
TarWrapper(bytes) ==
    CASE bytes = TarStable -> "w"
      [] bytes = TarOther  -> "b"
      [] OTHER             -> "a"
TarEntries(bytes) ==
    CASE bytes = TarDefault -> {".hg", "f"}
      [] bytes = TarStable  -> {".hg", "a"}
      [] bytes = TarOther   -> {".hg"}
      [] bytes = TarNested  -> {".hg", "a"}
      [] OTHER              -> {}
\* the repository an archive holds, below its folder
TarTree(bytes) ==
    LET repo == CASE bytes = TarDefault -> Repo(RepoUrl, {"r1"}, "r1")
                  [] bytes = TarStable  -> Repo(RepoUrl, {"r1", "r3"}, "r3")
                  [] bytes = TarOther   -> Repo(OtherUrl, {"r1"}, "r1")
                  [] bytes = TarNested  -> Repo(RepoUrl, {"r1", "r2"}, "r2")
                  [] OTHER              -> NoDir
    IN  [repo EXCEPT !.top = TarEntries(bytes)]

\* os.path.normpath on a relative path: empty components are dropped
RECURSIVE normpath(_)
normpath(p) ==
    IF Len(p) < 2 THEN p
    ELSE IF p[1] = "/" /\ p[2] = "/" THEN normpath(Tail(p))
    ELSE <<p[1]>> \o normpath(Tail(p))

\* the path of the local archive of an alias, below CACHE_DIR/clones
local_cache_path(alias) == normpath(alias \o TarGzSuffix)

\* a file outside the cache
TmpFile == <<"file">>
Aliases == {get_alias(u) : u \in Urls}
Paths   == {local_cache_path(a) : a \in Aliases} \cup {TmpFile}

(***************************************************************************)
(* The collaborators: hglib and urllib2/json, by their outcomes.           *)
(***************************************************************************)
\* hglib.clone(url, dest): the tree a successful clone creates
hg_clone(url) ==
    LET revs == RemoteRevs(url)
    IN  Repo(url, revs, Tip(OnBranch(revs, "default")))

\* client.pull(source, rev): source NoUrl is the hgrc's default path, rev "None"
\* is every changeset.  hglib returns whether hg exited with 0, it does not raise.
hg_pull(tree, source, rev, net) ==
    LET src    == IF source = NoUrl THEN tree.hgrc ELSE source
        remote == RemoteRevs(src)
        found  == IF rev = "None" THEN remote ELSE AncestorsOf(Resolve(remote, rev))
        ok     == net /\ found # {}
    IN  [ok |-> ok, tree |-> IF ok THEN [tree EXCEPT !.revs = @ \cup found] ELSE tree]

\* client.update(rev): hglib raises CommandError when hg cannot resolve rev
hg_update(tree, rev) ==
    LET target == Resolve(tree.revs, rev)
    IN  IF target = {} THEN [exc |-> "CommandError", tree |-> tree]
        ELSE LET r == CHOOSE t \in target : TRUE
             IN  [exc |-> "", tree |-> [tree EXCEPT !.parent = r, !.branch = BranchOf(r)]]

\* client.branch(): the branch of the working directory
hg_branch(tree) == tree.branch

\* what urllib2.urlopen(index url) can produce: an error, or a response whose
\* read() returns a str holding a JSON object with a taskId, a JSON object
\* without one, or text that is not JSON
IndexResponses ==
    {[status |-> "URLError", body |-> "none"], [status |-> "HTTPError", body |-> "none"]}
    \cup {[status |-> "ok", body |-> b] : b \in {"taskId", "nokey", "malformed"}}

\* r.read(): the body of the response, a str
r_read(resp) == [type |-> "str", text |-> resp.body, taskId |-> <<"T">>]

\* json.load(fp) is json.loads(fp.read()): it needs an object with a read
\* method, and a str has none (AttributeError); only a file-like argument is parsed
json_load(fp) ==
    IF fp.type # "file" THEN [exc |-> "AttributeError", hasTaskId |-> FALSE, taskId |-> <<>>]
    ELSE IF fp.text = "malformed" THEN [exc |-> "ValueError", hasTaskId |-> FALSE, taskId |-> <<>>]
    ELSE [exc |-> "", hasTaskId |-> fp.text = "taskId", taskId |-> fp.taskId]

\* hashlib.md5(alias).hexdigest(): one token per alias
RECURSIVE Flatten(_)
Flatten(s) == IF s = <<>> THEN "" ELSE s[1] \o Flatten(Tail(s))
md5(alias) == <<"md5(" \o Flatten(alias) \o ")">>

\* clone's namespace: '{}.{}'.format(TC_NAMESPACE, hashlib.md5(alias).hexdigest())
namespace_of(alias) == TC_NAMESPACE \o <<".">> \o md5(alias)

\* lookup_remote_cache(namespace, artifact) on the response resp of the index:
\* exc is the exception that leaves the function ("" if none), url the value
\* returned (NoUrl for None).  urlopen is called outside the try block, and
\* only ValueError is caught around json.load.
lookup_remote_cache(namespace, artifact, resp) ==
    LET url == urljoin(<<TC_INDEX, TaskSeg, namespace>>)
    IN  IF resp.status # "ok" THEN [exc |-> resp.status, url |-> NoUrl]
        ELSE LET task == json_load(r_read(resp))
             IN  IF task.exc = "ValueError" THEN [exc |-> "", url |-> NoUrl]
                 ELSE IF task.exc # "" THEN [exc |-> task.exc, url |-> NoUrl]
                 ELSE IF ~task.hasTaskId THEN [exc |-> "KeyError", url |-> NoUrl]
                 ELSE [exc |-> "",
                       url |-> urljoin(<<TC_QUEUE, TaskSeg, task.taskId, ArtifactsSeg, artifact>>)]

\* repo_is_hg(repo_path, alias): .hg/hgrc exists and its text contains alias
repo_is_hg_any_remote(tree, alias) == tree.exists /\ tree.hg
repo_is_hg_any_dir(tree, alias) == tree.exists
repo_is_hg(tree, alias) == tree.exists /\ tree.hg /\ Contains(tree.hgrc, alias)

(***************************************************************************)
(* The state.                                                              *)
(***************************************************************************)
VARIABLES
    files,      \* the files of the cache root and TmpFile: path -> file
    dest,       \* the destination directory
    pc,         \* the statement the program is at, "idle" between invocations
    args,       \* the arguments of the running (or last) invocation
    loc,        \* the local variables of the running invocation
    ret,        \* how the last finished invocation ended
    performed,  \* the operations the running (or last) invocation has performed
    snap,       \* files and dest when the running (or last) invocation began
    prevSeed    \* the archive path and tree of the latest extraction of an earlier invocation

vars == <<files, dest, pc, args, loc, ret, performed, snap, prevSeed>>

NoArgs == [entry |-> "none", baseUrl |-> NoUrl, headUrl |-> NoUrl, headRev |-> "None",
           dlUrl |-> NoUrl, dlPath |-> TmpFile, alias |-> <<>>,
           parts |-> <<>>, bases |-> <<>>]

NoLoc == [alias |-> <<>>, path |-> TmpFile, url |-> NoUrl, out |-> TmpFile,
          f |-> <<>>, indata |-> <<>>, k |-> TRUE, size |-> 0, dlErr |-> "",
          lookup |-> "none", body |-> "none", seed |-> NoDir, cloneResult |-> "None",
          headUrl |-> NoUrl, headRev |-> "None", pulls |-> <<>>]

Ret(v)   == [kind |-> "return", value |-> v]
Raised(e) == [kind |-> "raise", value |-> e]

\* the directories and cache files an invocation may find
InitDests ==
    {NoDir, PlainDir, Repo(RepoUrl, {"r1"}, "r1"), Repo(RepoUrl, {"r1", "r3"}, "r3"),
     Repo(OtherUrl, {"r1"}, "r1")}
InitCaches == {NoFile} \cup {File(t) : t \in Tars} \cup {File(<<1>>), File(<<>>)}

Init ==
    /\ \E c \in InitCaches :
          files = [p \in Paths |-> IF p = local_cache_path(get_alias(RepoUrl)) THEN c ELSE NoFile]
    /\ dest \in InitDests
    /\ pc = "idle"
    /\ args = NoArgs
    /\ loc = NoLoc
    /\ ret = [kind |-> "none", value |-> "None"]
    /\ performed = {}
    /\ snap = [files |-> files, dest |-> dest]
    /\ prevSeed = [path |-> TmpFile, tree |-> NoDir]

\* an invocation begins: its history starts afresh
Begin(a, l, first) ==
    /\ pc = "idle"
    /\ args' = a
    /\ loc' = l
    /\ pc' = first
    /\ performed' = {}
    /\ snap' = [files |-> files, dest |-> dest]
    /\ prevSeed' = IF loc.seed.exists THEN [path |-> loc.path, tree |-> loc.seed] ELSE prevSeed
    /\ ret' = [kind |-> "none", value |-> "None"]
    /\ UNCHANGED <<files, dest>>

(***************************************************************************)
(* How an invocation ends, and where a returning function continues.       *)
(***************************************************************************)
\* an exception nobody catches ends the invocation
Raise(e) == pc' = "idle" /\ ret' = Raised(e)

\* the invocation returns v to its caller
Finish(v) == pc' = "idle" /\ ret' = Ret(v)

\* clone() returns v: to the caller, or to CheckoutSubcommand.run
CloneReturns(v, l) ==
    IF args.entry = "clone" THEN Finish(v) /\ loc' = l
    ELSE pc' = "run" /\ loc' = [l EXCEPT !.cloneResult = v] /\ UNCHANGED ret

\* use_cache_if_available() returns v: to the caller, or to clone(), which goes
\* on to the full clone when v is false
UseCacheReturns(v) ==
    IF args.entry = "use_cache_if_available" THEN Finish(v)
    ELSE pc' = (IF v = "True" THEN "cl_validate" ELSE "cl_fallback") /\ UNCHANGED ret

(***************************************************************************)
(* download_file(url, dest, grabchunk)                                     *)
(***************************************************************************)
\* the urls given to download_file: one that a server answers, one that none does
GoodUrl  == <<"http://foo.bar/baz">>
BogusUrl == <<"http://foo.bar/qux">>

CallDownload ==
    \E u \in {GoodUrl, BogusUrl}, p \in {TmpFile} :
        /\ pc = "idle"
        /\ Begin([NoArgs EXCEPT !.entry = "download_file", !.dlUrl = u, !.dlPath = p],
                 [NoLoc EXCEPT !.url = u, !.out = p], "dl_open")

\* f = urllib2.urlopen(url): the server's resource, or URLError/HTTPError/ValueError,
\* which download_file catches
DlOpen ==
    /\ pc = "dl_open"
    /\ \/ /\ loc.url # BogusUrl
          /\ \E data \in ResourceSet : loc' = [loc EXCEPT !.f = data]
          /\ pc' = "dl_create"
       \/ /\ \E e \in {"URLError", "HTTPError"} : loc' = [loc EXCEPT !.dlErr = e]
          /\ pc' = "dl_ret"
    /\ performed' = performed \cup {"download"}
    /\ UNCHANGED <<files, dest, args, ret, snap, prevSeed>>

\* with open(dest, 'wb') as out: the file is created empty, or IOError, caught
DlCreate ==
    /\ pc = "dl_create"
    /\ \/ /\ files' = [files EXCEPT ![loc.out] = File(<<>>)]
          /\ loc' = [loc EXCEPT !.k = TRUE, !.size = 0]
          /\ pc' = "dl_loop"
       \/ /\ loc' = [loc EXCEPT !.dlErr = "IOError"]
          /\ pc' = "dl_ret"
          /\ UNCHANGED files
    /\ UNCHANGED <<dest, args, ret, performed, snap, prevSeed>>

\* the first n elements of s, and what follows them
Take(s, n) == SubSeq(s, 1, IF n < Len(s) THEN n ELSE Len(s))
Drop(s, n) == SubSeq(s, (IF n < Len(s) THEN n ELSE Len(s)) + 1, Len(s))

\* the value of k after  if indata == '': k - False  (an expression, not an assignment)
k_after(k, indata) == k

\* one turn of  while k:  read a chunk, write it, count it, test for the end.
\* A read before the end of the stream can fail (socket.error is an IOError),
\* and so can the write of a chunk; both are caught.
DlLoop ==
    /\ pc = "dl_loop"
    /\ IF ~loc.k
       THEN pc' = "dl_ret" /\ UNCHANGED <<loc, files>>
       ELSE \/ LET indata == Take(loc.f, grabchunk)
               IN  /\ files' = [files EXCEPT ![loc.out] = File(@.data \o indata)]
                   /\ loc' = [loc EXCEPT !.f = Drop(@, grabchunk), !.indata = indata,
                                         !.size = @ + Len(indata),
                                         !.k = k_after(@, indata)]
                   /\ pc' = "dl_loop"
            \/ /\ loc.f # <<>>
               /\ \E e \in {"read", "write"} : loc' = [loc EXCEPT !.dlErr = "IOError:" \o e]
               /\ pc' = "dl_ret"
               /\ UNCHANGED files
    /\ UNCHANGED <<dest, args, ret, performed, snap, prevSeed>>

\* return os.path.exists(dest): to the caller, or to use_cache_if_available,
\* which extracts the file when the answer is true
DlReturn ==
    /\ pc = "dl_ret"
    /\ LET v == IF files[loc.out].exists THEN "True" ELSE "False"
       IN  IF args.entry = "download_file" THEN Finish(v)
           ELSE IF v = "True" THEN pc' = "uc_extract" /\ UNCHANGED ret
           ELSE UseCacheReturns("False")
    /\ UNCHANGED <<files, dest, args, loc, performed, snap, prevSeed>>

(***************************************************************************)
(* use_cache_if_available(alias, namespace, dest)                          *)
(***************************************************************************)
\* if not os.path.exists(local_cache_path): the remote cache is consulted,
\* otherwise the local archive is extracted at once
use_cache_first_remote_only(path) == "uc_lookup"
use_cache_first(path) == IF files[path].exists THEN "uc_extract" ELSE "uc_lookup"

\* a direct call; the destination folder should not exist
CallUseCache ==
    \E u \in Urls :
        /\ ~dest.exists
        /\ LET alias == get_alias(u)
           IN  Begin([NoArgs EXCEPT !.entry = "use_cache_if_available", !.baseUrl = u],
                     [NoLoc EXCEPT !.alias = alias, !.path = local_cache_path(alias)],
                     use_cache_first(local_cache_path(alias)))

\* url = lookup_remote_cache(namespace, artifact_path); no url: return False;
\* otherwise download_file(url, local_cache_path).  Every response of the
\* index ends in an exception (see json_load), so the two continuations are
\* written down but not taken.
Lookup ==
    /\ pc = "uc_lookup"
    /\ \E resp \in IndexResponses :
          LET artifact_path == PublicPrefix \o loc.alias \o TarGzSuffix
              r == lookup_remote_cache(namespace_of(loc.alias), artifact_path, resp)
          IN  IF r.exc # ""
              THEN Raise(r.exc) /\ loc' = [loc EXCEPT !.lookup = resp.status, !.body = resp.body]
              ELSE IF r.url = NoUrl
              THEN UseCacheReturns("False") /\ loc' = [loc EXCEPT !.lookup = resp.status, !.body = resp.body]
              ELSE /\ pc' = "dl_open"
                   /\ loc' = [loc EXCEPT !.lookup = resp.status, !.body = resp.body, !.url = r.url, !.out = loc.path]
                   /\ UNCHANGED ret
    /\ performed' = performed \cup {"lookup"}
    /\ UNCHANGED <<files, dest, args, snap, prevSeed>>

\* the file is the beginning of an archive, cut before its end
Truncated(data) ==
    data # <<>> /\ \E t \in Tars : Len(data) < Len(t) /\ SubSeq(t, 1, Len(data)) = data

\* tar.extractall(dest) into an absent dest: dest holds the archive's folder
\* and nothing else, the repository is one level down
extractall(data) == [PlainDir EXCEPT !.top = {TarWrapper(data)}]

\* shutil.move(src, dst) of the entry name of folder tarfolder to the top
\* level: dst names an existing directory only when the entry is named like
\* tarfolder, move then aims at dst/name, which is src itself, and raises
\* shutil.Error
move_raises(name, tarfolder) == name = tarfolder

\* lines 120-123 on the tree extractall left: tarfolder is os.listdir(dest)[0],
\* every entry of it is moved up in the order of os.listdir, which is any
\* order, and the emptied folder is removed.  The outcomes: exc is the
\* exception ("" if none), tree the destination.
flatten(data, tree) ==
    LET tarfolder == CHOOSE n \in tree.top : TRUE
        entries   == TarEntries(data)
        failing   == {n \in entries : move_raises(n, tarfolder)}
        moved(S)  == [tree EXCEPT !.top = @ \cup S,
                                  !.hg = ".hg" \in S,
                                  !.hgrc = IF ".hg" \in S THEN TarTree(data).hgrc ELSE <<>>,
                                  !.revs = IF ".hg" \in S THEN TarTree(data).revs ELSE {},
                                  !.parent = IF ".hg" \in S THEN TarTree(data).parent ELSE "null",
                                  !.branch = IF ".hg" \in S THEN TarTree(data).branch
                                             ELSE "default"]
    IN  IF failing = {}
        THEN {[exc |-> "", tree |-> [moved(entries) EXCEPT !.top = @ \ {tarfolder}]]}
        ELSE {[exc |-> "Error", tree |-> moved(S)] : S \in SUBSET (entries \ failing)}

\* an exception of lines 118-123: nothing catches it, neither here nor in
\* clone(), so it ends the invocation
extract_failure_falls_back(e) == UseCacheReturns("False")
extract_failure(e) == Raise(e)

\* tarfile.open(local_cache_path).extractall(dest) and the move of the entries
\* of the archive's folder into dest.  A file that is no archive raises
\* ReadError in tarfile.open, before dest is touched; a truncated archive
\* raises there or, cut later, in extractall, after dest was created and
\* some entries were written below the archive's folder.
Extract ==
    /\ pc = "uc_extract"
    /\ LET data == files[loc.path].data
       IN  IF data \in Tars
           THEN \E o \in flatten(data, extractall(data)) :
                   /\ dest' = o.tree
                   /\ IF o.exc = ""
                      THEN loc' = [loc EXCEPT !.seed = o.tree] /\ UseCacheReturns("True")
                      ELSE extract_failure(o.exc) /\ UNCHANGED loc
           ELSE /\ \E partial \in (IF Truncated(data) THEN BOOLEAN ELSE {FALSE}) :
                      dest' = IF partial THEN PlainDir ELSE dest
                /\ extract_failure("ReadError")
                /\ UNCHANGED loc
    /\ performed' = performed \cup {"extract"}
    /\ UNCHANGED <<files, args, snap, prevSeed>>

(***************************************************************************)
(* get_alias(url)                                                          *)
(***************************************************************************)
\* the urls get_alias is given: those of the repositories, and the same
\* repository named with another scheme and with a slash at the end
url_of(scheme, rest) == <<scheme, ":", "/", "/">> \o rest
AliasUrls ==
    Urls \cup {url_of(sch, rest) : sch \in {"http", "https"},
                                  rest \in {<<"x", "/", "a">>, <<"x", "/", "a", "/">>, <<"x">>}}

\* a direct call
CallGetAlias ==
    \E u \in AliasUrls :
        /\ pc = "idle"
        /\ Begin([NoArgs EXCEPT !.entry = "get_alias", !.baseUrl = u], NoLoc, "alias")

\* the body of get_alias; the str returned is written as one string
GetAlias ==
    /\ pc = "alias"
    /\ Finish(Flatten(get_alias(args.baseUrl)))
    /\ UNCHANGED <<files, dest, args, loc, performed, snap, prevSeed>>

(***************************************************************************)
(* urljoin(args...)                                                        *)
(***************************************************************************)
\* the segments urljoin is given: a base that does not end with a slash,
\* followed by no, one or two slashes
SegmentBases == {<<"f">>, <<"b", "/", "q">>}
SlashRuns    == {<<>>, <<"/">>, <<"/", "/">>}

\* a direct call with 1..MaxSegments segments; bases records what the
\* segments were built from
CallUrljoin ==
    \E n \in 1..MaxSegments :
        \E bs \in [1..n -> SegmentBases], sl \in [1..n -> SlashRuns] :
            /\ pc = "idle"
            /\ Begin([NoArgs EXCEPT !.entry = "urljoin",
                                    !.parts = [i \in 1..n |-> bs[i] \o sl[i]],
                                    !.bases = bs],
                     NoLoc, "urljoin")

\* the body of urljoin; the str returned is written as one string
Urljoin ==
    /\ pc = "urljoin"
    /\ Finish(Flatten(urljoin(args.parts)))
    /\ UNCHANGED <<files, dest, args, loc, performed, snap, prevSeed>>

\* urljoin called on its own, again and again
UrljoinInit == Init /\ ~dest.exists /\ \A p \in Paths : ~files[p].exists
UrljoinNext == CallUrljoin \/ Urljoin
UrljoinSpec == UrljoinInit /\ [][UrljoinNext]_vars

(***************************************************************************)
(* repo_is_hg(repo_path, alias)                                            *)
(***************************************************************************)
\* the aliases repo_is_hg is asked about: those of the repositories, a part
\* of one, one with a slash at its end, one of no repository, the empty one
ValidatorAliases ==
    Aliases \cup {<<"x">>, get_alias(RepoUrl) \o <<"/">>, <<"y", "/", "a">>, <<>>}

\* a direct call on the destination as it is
CallRepoIsHg ==
    \E a \in ValidatorAliases :
        /\ pc = "idle"
        /\ Begin([NoArgs EXCEPT !.entry = "repo_is_hg", !.alias = a], NoLoc, "is_hg")

\* the body of repo_is_hg: the function returns True or False
RepoIsHg ==
    /\ pc = "is_hg"
    /\ Finish(IF repo_is_hg(dest, args.alias) THEN "True" ELSE "False")
    /\ UNCHANGED <<files, dest, args, loc, performed, snap, prevSeed>>

(***************************************************************************)
(* clone(url, dest)                                                        *)
(***************************************************************************)
CallClone ==
    \E u \in Urls :
        /\ pc = "idle"
        /\ Begin([NoArgs EXCEPT !.entry = "clone", !.baseUrl = u], NoLoc, "clone")

\* if not os.path.exists(dest): the cache is tried first; an existing
\* destination goes to the validation at once
clone_first_repair(d, path) ==
    IF ~d.exists \/ ~d.hg THEN use_cache_first(path) ELSE "cl_validate"
clone_first_ignore_dest(d, path) == use_cache_first(path)
clone_first(d, path) == IF ~d.exists THEN use_cache_first(path) ELSE "cl_validate"

\* alias = get_alias(url); if not os.path.exists(dest): use_cache_if_available(...)
CloneBegin ==
    /\ pc = "clone"
    /\ LET alias == get_alias(args.baseUrl)
       IN  /\ loc' = [loc EXCEPT !.alias = alias, !.path = local_cache_path(alias)]
           /\ pc' = clone_first(dest, local_cache_path(alias))
    /\ UNCHANGED <<files, dest, args, ret, performed, snap, prevSeed>>

\* the arguments of a call of client.pull, kept in loc.pulls in the order of
\* the calls: NoUrl is no source (the default path of the hgrc), "None" no rev
Pull(source, rev) == [source |-> source, rev |-> rev]

\* log.error(...); return False: the destination that is not a checkout of
\* the alias is left as it is
rejected_dest_removed(d) == NoDir
rejected_dest(d) == d

\* the rest of clone(): hglib.clone(url, dest) when the cache gave nothing
\* (CommandError when hg fails), then repo_is_hg(dest, alias) and
\* return client.pull(), or return False
CloneFinish ==
    /\ pc \in {"cl_fallback", "cl_validate"}
    /\ \E cloned \in BOOLEAN, net \in BOOLEAN :
          LET full == pc = "cl_fallback"
              d1   == IF full THEN hg_clone(args.baseUrl) ELSE dest
              ops  == performed \cup (IF full THEN {"hgclone"} ELSE {})
          IN  IF full /\ ~cloned
              THEN /\ Raise("CommandError")
                   /\ performed' = ops
                   /\ UNCHANGED <<dest, loc>>
              ELSE IF repo_is_hg(d1, loc.alias)
              THEN LET p == hg_pull(d1, NoUrl, "None", net)
                   IN  /\ dest' = p.tree
                       /\ performed' = ops \cup {"pull"}
                       /\ CloneReturns(IF p.ok THEN "True" ELSE "False",
                                       [loc EXCEPT !.pulls = Append(@, Pull(NoUrl, "None"))])
              ELSE /\ dest' = rejected_dest(d1)
                   /\ performed' = ops
                   /\ CloneReturns("False", loc)
    /\ UNCHANGED <<files, args, snap, prevSeed>>

(***************************************************************************)
(* main(argv) and CheckoutSubcommand.run(parser, args)                     *)
(***************************************************************************)
\* the revisions a caller asks for: a changeset id, or none
HeadRevs == Revs \cup {UnknownRev, "None"}

\* checkout <directory> <baseUrl> [headUrl] [headRev]
CallMain ==
    \E u \in Urls, hu \in Urls \cup {NoUrl}, hr \in HeadRevs :
        /\ hu = NoUrl => hr = "None"
        /\ Begin([NoArgs EXCEPT !.entry = "main", !.baseUrl = u, !.headUrl = hu, !.headRev = hr],
                 NoLoc, "clone")

\* if not clone(args.baseUrl, args.directory): return
run_always_continues(cloneResult) == TRUE
run_continues(cloneResult) == cloneResult = "True"

\* if not clone(...): return; client = hglib.open(directory); the defaults of
\* headUrl and headRev
RunBegin ==
    /\ pc = "run"
    /\ IF ~run_continues(loc.cloneResult)
       THEN Finish("None") /\ UNCHANGED loc
       ELSE /\ loc' = [loc EXCEPT
                          !.headUrl = IF args.headUrl = NoUrl THEN args.baseUrl ELSE args.headUrl,
                          !.headRev = IF args.headRev = "None" THEN hg_branch(dest)
                                      ELSE args.headRev]
            /\ pc' = "run_pull"
            /\ UNCHANGED ret
    /\ UNCHANGED <<files, dest, args, performed, snap, prevSeed>>

\* the source of run's pull
pull_source_default == NoUrl
pull_source == loc.headUrl

\* client.pull(source=args.headUrl, rev=args.headRev); its result is not looked at
RunPull ==
    /\ pc = "run_pull"
    /\ \E net \in BOOLEAN : dest' = hg_pull(dest, pull_source, loc.headRev, net).tree
    /\ performed' = performed \cup {"pull_head"}
    /\ loc' = [loc EXCEPT !.pulls = Append(@, Pull(pull_source, loc.headRev))]
    /\ pc' = "run_update"
    /\ UNCHANGED <<files, args, ret, snap, prevSeed>>

\* the revision the working tree is updated to
update_rev_branch == hg_branch(dest)
update_rev == loc.headRev

\* client.update(rev=args.headRev), the last statement of run
RunUpdate ==
    /\ pc = "run_update"
    /\ LET u == hg_update(dest, update_rev)
       IN  /\ dest' = u.tree
           /\ IF u.exc # "" THEN Raise(u.exc) ELSE Finish("None")
    /\ performed' = performed \cup {"update"}
    /\ UNCHANGED <<files, args, loc, snap, prevSeed>>

\* sys.exit(main(sys.argv)): main returns None, which exits with 0; an
\* exception that leaves main exits with 1
ExitStatus == IF ret.kind = "raise" THEN 1 ELSE 0

(***************************************************************************)
(* The environment and the specification.                                  *)
(***************************************************************************)
\* between invocations the caller removes the destination (a fresh directory);
\* the record of the last invocation ends here
RemoveDest ==
    /\ pc = "idle"
    /\ dest.exists
    /\ dest' = NoDir
    /\ args' = NoArgs
    /\ loc' = NoLoc
    /\ ret' = [kind |-> "none", value |-> "None"]
    /\ performed' = {}
    /\ snap' = [files |-> files, dest |-> NoDir]
    /\ prevSeed' = IF loc.seed.exists THEN [path |-> loc.path, tree |-> loc.seed] ELSE prevSeed
    /\ UNCHANGED <<files, pc>>

Next ==
    \/ CallMain
    \/ CallClone
    \/ CallUseCache
    \/ CallDownload
    \/ CloneBegin
    \/ Lookup
    \/ Extract
    \/ DlOpen
    \/ DlCreate
    \/ DlLoop
    \/ DlReturn
    \/ CloneFinish
    \/ RunBegin
    \/ RunPull
    \/ RunUpdate
    \/ RemoveDest
    \/ CallRepoIsHg
    \/ RepoIsHg
    \/ CallGetAlias
    \/ GetAlias

Spec == Init /\ [][Next]_vars

TypeOK ==
    /\ pc \in {"idle", "clone", "uc_lookup", "uc_extract", "dl_open", "dl_create",
               "dl_loop", "dl_ret", "cl_fallback", "cl_validate", "run", "run_pull",
               "run_update", "is_hg", "alias", "urljoin"}
    /\ ret.kind \in {"none", "return", "raise"}
    /\ \A p \in Paths : files[p].exists \in BOOLEAN
    /\ dest.exists \in BOOLEAN

(***************************************************************************)
(* Two invocations at once.  Every invocation is a process of its own, with *)
(* its own destination, arguments and local variables (the variables are    *)
(* functions of the process here); the files of the cache root are shared.  *)
(* Each statement that reads or writes a file is one step.                  *)
(***************************************************************************)
Procs == {"A", "B"}

\* the cache file both invocations are about
RacePath == local_cache_path(get_alias(RepoUrl))

RaceInit ==
    /\ \E c \in {NoFile, File(TarDefault)} :
          files = [p \in Paths |-> IF p = RacePath THEN c ELSE NoFile]
    /\ dest = [p \in Procs |-> NoDir]
    /\ pc = [p \in Procs |-> "idle"]
    /\ args = [p \in Procs |-> NoArgs]
    /\ loc = [p \in Procs |-> NoLoc]
    /\ ret = [p \in Procs |-> [kind |-> "none", value |-> "None"]]
    /\ performed = [p \in Procs |-> {}]
    /\ snap = [files |-> files, dest |-> NoDir]
    /\ prevSeed = [path |-> TmpFile, tree |-> NoDir]

\* process p goes to statement next with the locals l
RaceGoto(p, next, l) ==
    /\ pc' = [pc EXCEPT ![p] = next]
    /\ loc' = [loc EXCEPT ![p] = l]
    /\ UNCHANGED ret

\* the invocation of process p ends
RaceEnd(p, r, l) ==
    /\ pc' = [pc EXCEPT ![p] = "done"]
    /\ loc' = [loc EXCEPT ![p] = l]
    /\ ret' = [ret EXCEPT ![p] = r]

\* process p has performed op
RaceDid(p, op) == performed' = [performed EXCEPT ![p] = @ \cup {op}]

\* use_cache_if_available(alias, namespace, dest) is called, its destination
\* absent: the test of line 104 sends it to the lookup or to the extraction
RaceCallUseCache(p) ==
    /\ pc[p] = "idle"
    /\ args' = [args EXCEPT ![p] = [NoArgs EXCEPT !.entry = "use_cache_if_available",
                                                 !.baseUrl = RepoUrl]]
    /\ RaceGoto(p, use_cache_first(RacePath),
                [NoLoc EXCEPT !.alias = get_alias(RepoUrl), !.path = RacePath])
    /\ UNCHANGED <<files, dest, performed, snap, prevSeed>>

\* download_file(url, local_cache_path) is called, as line 113 calls it
RaceCallDownload(p) ==
    /\ pc[p] = "idle"
    /\ \E u \in {GoodUrl, BogusUrl} :
          /\ args' = [args EXCEPT ![p] = [NoArgs EXCEPT !.entry = "download_file",
                                                       !.dlUrl = u, !.dlPath = RacePath]]
          /\ RaceGoto(p, "dl_open", [NoLoc EXCEPT !.url = u, !.out = RacePath])
    /\ UNCHANGED <<files, dest, performed, snap, prevSeed>>

\* lines 109-114 up to the call of download_file
RaceLookup(p) ==
    /\ pc[p] = "uc_lookup"
    /\ \E resp \in IndexResponses :
          LET artifact_path == PublicPrefix \o loc[p].alias \o TarGzSuffix
              r == lookup_remote_cache(namespace_of(loc[p].alias), artifact_path, resp)
              l == [loc[p] EXCEPT !.lookup = resp.status, !.body = resp.body]
          IN  IF r.exc # "" THEN RaceEnd(p, Raised(r.exc), l)
              ELSE IF r.url = NoUrl THEN RaceEnd(p, Ret("False"), l)
              ELSE RaceGoto(p, "dl_open", [l EXCEPT !.url = r.url, !.out = loc[p].path])
    /\ RaceDid(p, "lookup")
    /\ UNCHANGED <<files, dest, args, snap, prevSeed>>

\* f = urllib2.urlopen(url): the server serves an archive, or the error is caught
RaceDlOpen(p) ==
    /\ pc[p] = "dl_open"
    /\ \/ /\ loc[p].url # BogusUrl
          /\ \E data \in {TarDefault, TarStable} :
                RaceGoto(p, "dl_create", [loc[p] EXCEPT !.f = data])
       \/ \E e \in {"URLError", "HTTPError"} :
                RaceGoto(p, "dl_ret", [loc[p] EXCEPT !.dlErr = e])
    /\ RaceDid(p, "download")
    /\ UNCHANGED <<files, dest, args, snap, prevSeed>>

\* open(dest, 'wb'): the file is created or truncated and the writer is at
\* offset 0, or IOError, caught
RaceDlCreate(p) ==
    /\ pc[p] = "dl_create"
    /\ \/ /\ files' = [files EXCEPT ![loc[p].out] = File(<<>>)]
          /\ RaceGoto(p, "dl_loop", [loc[p] EXCEPT !.k = TRUE, !.size = 0])
       \/ /\ RaceGoto(p, "dl_ret", [loc[p] EXCEPT !.dlErr = "IOError"])
          /\ UNCHANGED files
    /\ UNCHANGED <<dest, args, performed, snap, prevSeed>>

\* out.write(indata) of a writer whose offset is pos: the bytes go to
\* pos+1.., over what is there; a file shorter than pos is filled with 0
RECURSIVE Zeros(_)
Zeros(n) == IF n <= 0 THEN <<>> ELSE <<0>> \o Zeros(n - 1)
WriteAt(data, pos, chunk) ==
    IF pos >= Len(data) THEN data \o Zeros(pos - Len(data)) \o chunk
    ELSE SubSeq(data, 1, pos) \o chunk \o SubSeq(data, pos + Len(chunk) + 1, Len(data))

\* one turn of the loop of download_file; size is the offset of the writer.
\* A failing read or write is caught.
RaceDlLoop(p) ==
    /\ pc[p] = "dl_loop"
    /\ IF ~loc[p].k
       THEN RaceGoto(p, "dl_ret", loc[p]) /\ UNCHANGED files
       ELSE \/ LET indata == Take(loc[p].f, grabchunk)
               IN  /\ files' = [files EXCEPT ![loc[p].out] =
                                     File(WriteAt(@.data, loc[p].size, indata))]
                   /\ RaceGoto(p, "dl_loop",
                               [loc[p] EXCEPT !.f = Drop(@, grabchunk), !.indata = indata,
                                              !.size = @ + Len(indata),
                                              !.k = k_after(@, indata)])
            \/ /\ loc[p].f # <<>>
               /\ \E e \in {"read", "write"} :
                     RaceGoto(p, "dl_ret", [loc[p] EXCEPT !.dlErr = "IOError:" \o e])
               /\ UNCHANGED files
    /\ UNCHANGED <<dest, args, performed, snap, prevSeed>>

\* return os.path.exists(dest)
RaceDlReturn(p) ==
    /\ pc[p] = "dl_ret"
    /\ LET v == IF files[loc[p].out].exists THEN "True" ELSE "False"
       IN  IF args[p].entry = "download_file" THEN RaceEnd(p, Ret(v), loc[p])
           ELSE IF v = "True" THEN RaceGoto(p, "uc_extract", loc[p])
           ELSE RaceEnd(p, Ret("False"), loc[p])
    /\ UNCHANGED <<files, dest, args, performed, snap, prevSeed>>

\* lines 118-125 on the file as it is at this moment
RaceExtract(p) ==
    /\ pc[p] = "uc_extract"
    /\ LET data == files[loc[p].path].data
       IN  IF data \in Tars
           THEN \E o \in flatten(data, extractall(data)) :
                   /\ dest' = [dest EXCEPT ![p] = o.tree]
                   /\ IF o.exc = ""
                      THEN RaceEnd(p, Ret("True"), [loc[p] EXCEPT !.seed = o.tree])
                      ELSE RaceEnd(p, Raised(o.exc), loc[p])
           ELSE /\ \E partial \in (IF Truncated(data) THEN BOOLEAN ELSE {FALSE}) :
                      dest' = [dest EXCEPT ![p] = IF partial THEN PlainDir ELSE NoDir]
                /\ RaceEnd(p, Raised("ReadError"), loc[p])
    /\ RaceDid(p, "extract")
    /\ UNCHANGED <<files, args, snap, prevSeed>>

RaceNext ==
    \E p \in Procs :
        \/ RaceCallUseCache(p)
        \/ RaceCallDownload(p)
        \/ RaceLookup(p)
        \/ RaceDlOpen(p)
        \/ RaceDlCreate(p)
        \/ RaceDlLoop(p)
        \/ RaceDlReturn(p)
        \/ RaceExtract(p)

RaceSpec == RaceInit /\ [][RaceNext]_vars

(***************************************************************************)
(* Properties.                                                             *)
(***************************************************************************)
\* an invocation of the named entry points has ended
Ended(entries) == pc = "idle" /\ args.entry \in entries /\ ret.kind # "none"

\* the invocation runs clone() (directly or from the command) and is past the
\* computation of the alias
InClone == args.entry \in {"clone", "main"} /\ pc # "clone"

\* the cache operations and the full clone
BaseOps == {"lookup", "download", "extract", "hgclone"}

\* the destination was absent / invalid / valid for the alias when clone() was called
AbsentAtEntry  == InClone /\ ~snap.dest.exists
InvalidAtEntry == InClone /\ snap.dest.exists /\ ~repo_is_hg(snap.dest, get_alias(args.baseUrl))
ValidAtEntry   == InClone /\ snap.dest.exists /\ repo_is_hg(snap.dest, get_alias(args.baseUrl))

\* the command went through the whole of run: clone() succeeded and neither
\* the pull nor the update raised
MainSynced == Ended({"main"}) /\ ret = Ret("None") /\ loc.cloneResult = "True"

\* C1: when clone(url, dest) was called with dest absent and has ended, the
\* full clone (hglib.clone) was invoked if and only if the cache path yielded
\* no archive (there is no archive at the local cache path of the alias).
C1_FullCloneIffNoArchive ==
    (Ended({"clone", "main"}) /\ AbsentAtEntry)
        => (("hgclone" \in performed) <=> ~files[loc.path].exists)

\* C2: a transport or HTTP failure of the index lookup is not fatal: the
\* invocation does not end with that error, and clone() went on to the full clone.
C2_LookupFailureNotFatal ==
    (Ended({"clone", "main"}) /\ loc.lookup \in {"URLError", "HTTPError"})
        => (ret # Raised(loc.lookup) /\ "hgclone" \in performed)

\* the invocation found a local archive for the alias, the destination being absent
LocalHit ==
    /\ args.entry \in {"use_cache_if_available", "clone", "main"}
    /\ pc # "clone"
    /\ ~snap.dest.exists
    /\ snap.files[loc.path].exists

\* the frame of a local hit: no index lookup, no download, the archive unchanged
LocalHitFrame ==
    LocalHit => (performed \cap {"lookup", "download"} = {} /\ files = snap.files)

\* the tree is the one the previous extraction of the same archive produced
SameAsBefore == (prevSeed.path = loc.path /\ prevSeed.tree.exists) => dest = prevSeed.tree

\* the file is an archive whose folder holds no entry named like the folder
Installable(data) == data \in Tars /\ TarWrapper(data) \notin TarEntries(data)

\* C3 as stated: with a local archive present, use_cache_if_available does no
\* lookup and no download, leaves the archive unchanged, returns true, and
\* extracts the same tree as the time before.
C3_LocalArchiveReturnsTrue ==
    /\ LocalHitFrame
    /\ (LocalHit /\ Ended({"use_cache_if_available"}))
           => (ret = Ret("True") /\ SameAsBefore)

\* C3 amended: with a local archive present, use_cache_if_available does no
\* lookup and no download and leaves the archive unchanged; when the archive
\* can be installed (it is readable and no entry of its folder is named like
\* the folder) it returns true with the same tree as the time before, and
\* when it cannot the error of the extraction or of the move leaves the function.
C3_LocalArchiveUsedDirectly ==
    /\ LocalHitFrame
    /\ (LocalHit /\ Ended({"use_cache_if_available"}))
           => IF Installable(files[loc.path].data)
              THEN ret = Ret("True") /\ dest = TarTree(files[loc.path].data) /\ SameAsBefore
              ELSE ret \in {Raised("ReadError"), Raised("Error")}

\* a second use of the same local archive has returned true
C3_Witness ==
    /\ LocalHit /\ Ended({"use_cache_if_available"})
    /\ ret = Ret("True")
    /\ prevSeed.path = loc.path /\ prevSeed.tree.exists

\* C4: when the destination exists and is not a valid checkout for the alias,
\* clone() reports failure (and the command goes no further), the destination
\* and the cache are as they were, and no lookup, download, extraction, full
\* clone, pull or update was performed.
C4_InvalidDestUntouched ==
    InvalidAtEntry =>
        /\ dest = snap.dest
        /\ files = snap.files
        /\ performed = {}
        /\ Ended({"clone"}) => ret = Ret("False")
        /\ Ended({"main"}) => (ret = Ret("None") /\ loc.cloneResult = "False")
        /\ pc \in {"cl_validate", "run", "idle"}

\* the command has ended on an existing directory that is no checkout of the alias
C4_Witness == InvalidAtEntry /\ Ended({"main"}) /\ snap.dest.hg

\* C5 as stated: when the destination exists and is valid, clone() performs
\* the pull and nothing of the cache path or the full clone, and reports success.
C5_ValidDestReportsSuccess ==
    (ValidAtEntry /\ Ended({"clone"}))
        => (performed = {"pull"} /\ ret = Ret("True"))

\* C5 amended: when the destination exists and is valid, clone() performs
\* nothing of the cache path and no full clone, goes directly to the pull,
\* and reports the pull's outcome: success when the pull succeeded (the
\* changesets of the configured remote are there), failure when it failed
\* (the destination is as it was).
C5_ValidDestPullsDirectly ==
    ValidAtEntry =>
        /\ performed \cap BaseOps = {}
        /\ pc \in {"cl_validate", "run", "run_pull", "run_update", "idle"}
        /\ Ended({"clone"}) =>
              /\ performed = {"pull"}
              /\ \/ ret = Ret("True") /\ RemoteRevs(snap.dest.hgrc) \subseteq dest.revs
                 \/ ret = Ret("False") /\ dest = snap.dest

\* clone() on a valid destination has pulled new changesets and reported success
C5_Witness ==
    ValidAtEntry /\ Ended({"clone"}) /\ ret = Ret("True") /\ dest # snap.dest

\* C6: when the command ends after a failure (the existing destination is not
\* a valid checkout, or clone() reported a failure of the collaborator), the
\* exit status is not zero.
C6_FailureExitsNonZero ==
    (Ended({"main"}) /\ (InvalidAtEntry \/ loc.cloneResult = "False" \/ ret.kind = "raise"))
        => ExitStatus # 0

\* C7: download_file returns false whenever an error occurred while opening
\* the url, reading a chunk or writing the file, and the error does not leave it.
C7_DownloadErrorReturnsFalse ==
    (Ended({"download_file"}) /\ loc.dlErr # "") => ret = Ret("False")

\* C8: download_file stops reading when the stream is exhausted: the turn of
\* the loop that reads the empty chunk is the last one.
C8_LoopStopsAtEndOfStream ==
    [][(pc = "dl_loop" /\ loc.k /\ loc.f = <<>>) => (pc' = "dl_ret" \/ ~loc'.k)]_vars

\* C9: after the command, given a headRev, went through the whole of run, the
\* parent of the working directory is the requested headRev.
C9_SyncedToHeadRev ==
    (MainSynced /\ args.headRev # "None") => dest.parent = args.headRev

\* a destination that was absent, seeded from the archive, is at a requested
\* changeset the archive did not hold
C9_Witness ==
    /\ MainSynced /\ args.headRev = "r2" /\ dest.parent = "r2"
    /\ AbsentAtEntry /\ "extract" \in performed

\* C10: after the command, given no headRev, went through the whole of run,
\* the working directory is at the tip of the default branch.
C10_SyncedToDefaultTip ==
    (MainSynced /\ args.headRev = "None")
        => dest.parent = Tip(OnBranch(dest.revs, "default"))

\* the invocation extracted the archive it found or fetched into an absent
\* destination, and is over or past use_cache_if_available
Installed ==
    /\ args.entry \in {"use_cache_if_available", "clone", "main"}
    /\ ~snap.dest.exists
    /\ "extract" \in performed
    /\ files[loc.path].data \in Tars

\* C11: after use_cache_if_available installed an archive (one top-level
\* folder of any name, holding entries of any names) into an absent
\* destination, the top level of the destination holds exactly the entries
\* of the folder: the folder itself is gone, no entry is lost or left nested.
C11_TopLevelIsEntries ==
    Installed => dest.top = TarEntries(files[loc.path].data)

\* s occurs in text: some i, j with text[i..j] = s
Occurs(s, text) ==
    \E i \in 1..(Len(text) + 1) : \E j \in (i - 1)..Len(text) : SubSeq(text, i, j) = s

OnlyScheme(u, v) == u # v /\ Tail(u) = Tail(v)
OnlySlash(u, v)  == u = v \o <<"/">> \/ v = u \o <<"/">>

\* C13: get_alias returns host + path, the scheme removed, and every url
\* that differs from the one given only by the scheme or only by a slash at
\* the end has the same alias, namespace and local cache path.
C13_AliasIgnoresSchemeAndSlash ==
    Ended({"get_alias"}) =>
        /\ ret.kind = "return"
        /\ Flatten(args.baseUrl) = Flatten(SubSeq(args.baseUrl, 1, 4)) \o ret.value
        /\ \A v \in AliasUrls :
              (OnlyScheme(args.baseUrl, v) \/ OnlySlash(args.baseUrl, v)) =>
                  /\ Flatten(get_alias(v)) = ret.value
                  /\ namespace_of(get_alias(v)) = namespace_of(get_alias(args.baseUrl))
                  /\ local_cache_path(get_alias(v)) = local_cache_path(get_alias(args.baseUrl))

\* the segments written one after the other with one "/" between two of them
RECURSIVE Glue(_)
Glue(segs) ==
    IF Len(segs) = 1 THEN segs[1]
    ELSE Glue(SubSeq(segs, 1, Len(segs) - 1)) \o <<"/">> \o segs[Len(segs)]

\* C14: urljoin joins its segments with exactly one "/" between consecutive
\* segments, and the result is the same for every mix of slashes at the end
\* of the segments.
C14_OneSlashBetweenSegments ==
    Ended({"urljoin"}) =>
        /\ ret = Ret(Flatten(Glue(args.bases)))
        /\ \A sl \in [1..Len(args.bases) -> SlashRuns] :
              Flatten(urljoin([i \in 1..Len(args.bases) |-> args.bases[i] \o sl[i]])) = ret.value

\* urljoin has joined three segments, the first and the last ending with slashes
C14_Witness ==
    /\ Ended({"urljoin"}) /\ Len(args.parts) = 3
    /\ args.parts[1] = <<"f", "/">> /\ args.parts[3] = <<"b", "/", "q", "/", "/">>
    /\ ret = Ret("f/f/b/q")

\* the invocation found the destination absent and no local archive, and the
\* index answered its lookup with a task that holds the archive
RemoteHit ==
    /\ args.entry \in {"use_cache_if_available", "clone", "main"}
    /\ ~snap.dest.exists
    /\ ~snap.files[loc.path].exists
    /\ loc.lookup = "ok" /\ loc.body = "taskId"

\* C15: the local cache is filled lazily and persists: an invocation that
\* found no local archive and was answered by the index ends with the
\* archive at the local cache path, and an invocation that finds the archive
\* there (the destination absent) is seeded from it with no lookup and no
\* download, the archive staying as it is.
C15_CacheFilledLazily ==
    /\ (RemoteHit /\ pc = "idle" /\ ret.kind # "none")
           => (files[loc.path].exists /\ files[loc.path].data \in Tars)
    /\ LocalHit => (performed \cap {"lookup", "download"} = {} /\ files[loc.path] = snap.files[loc.path])

\* the pulls and the update
SyncOps == {"pull", "pull_head", "update"}

\* the tree is a checkout bound to the alias of the url given
BoundToAlias(tree) ==
    tree.exists /\ tree.hg /\ Occurs(get_alias(args.baseUrl), tree.hgrc)

\* the destination was absent and has been seeded from an archive or cloned
SeededOrCloned ==
    AbsentAtEntry /\ (loc.seed.exists \/ "hgclone" \in performed)

\* C16: a destination seeded from an archive or freshly cloned is validated
\* against the alias before any synchronisation: whenever a pull or an update
\* has been performed the destination is a checkout bound to the alias, and
\* when the seeded destination is not, clone() reports failure and the
\* command goes no further.
C16_ValidatedBeforeSync ==
    /\ (InClone /\ performed \cap SyncOps # {}) => BoundToAlias(dest)
    /\ (SeededOrCloned /\ ~BoundToAlias(dest)) =>
          /\ performed \cap SyncOps = {}
          /\ pc \in {"cl_validate", "run", "idle"}
          /\ Ended({"clone"}) => ret = Ret("False")
          /\ Ended({"main"}) => (ret = Ret("None") /\ loc.cloneResult = "False")

\* the command has ended on a destination seeded from the archive of another
\* repository
C16_Witness ==
    /\ Ended({"main"}) /\ SeededOrCloned /\ ~BoundToAlias(dest)
    /\ dest.hg /\ "extract" \in performed

\* the invocation, its destination absent, had an archive (found or fetched)
\* and tried to extract it, and the archive cannot be installed
ExtractFailed ==
    /\ args.entry \in {"use_cache_if_available", "clone", "main"}
    /\ ~snap.dest.exists
    /\ "extract" \in performed
    /\ ~Installable(files[loc.path].data)

\* C17: when the archive that was obtained cannot be read or extracted, the
\* attempt fails with the error of the extraction, which reaches the caller
\* (the command exits with a status that is not 0): there is no full clone
\* instead, and no pull and no update.
C17_ExtractionErrorSurfaces ==
    ExtractFailed =>
        /\ pc = "idle"
        /\ ret \in {Raised("ReadError"), Raised("Error")}
        /\ files[loc.path].data \notin Tars => ret = Raised("ReadError")
        /\ performed \cap ({"hgclone"} \cup SyncOps) = {}
        /\ args.entry = "main" => ExitStatus # 0

\* the command has ended on a truncated archive, a part of which was extracted
C17_Witness ==
    /\ ExtractFailed /\ Ended({"main"}) /\ ret = Raised("ReadError")
    /\ Truncated(files[loc.path].data) /\ dest.exists

\* the index has answered the lookup of the invocation with the body b
LookedUp(b) ==
    /\ args.entry \in {"use_cache_if_available", "clone", "main"}
    /\ "lookup" \in performed
    /\ loc.lookup = "ok" /\ loc.body = b

\* C18: when the index answers with a body that is not JSON,
\* lookup_remote_cache returns nothing and does not raise: the cache path
\* reports a miss and clone() goes on to the full clone; when the body is
\* JSON with a taskId, the url returned is
\* <queue>/task/<taskId>/artifacts/<artifact path>.
C18_MalformedBodyIsMiss ==
    /\ LookedUp("malformed") =>
          /\ ret.kind # "raise"
          /\ Ended({"use_cache_if_available"}) => ret = Ret("False")
          /\ Ended({"clone", "main"}) => "hgclone" \in performed
    /\ LookedUp("taskId") =>
          loc.url = TC_QUEUE \o <<"/">> \o TaskSeg \o <<"/", "T", "/">> \o ArtifactsSeg
                        \o <<"/">> \o PublicPrefix \o loc.alias \o TarGzSuffix

\* the head url of the command: the one given, the base url when none is
HeadUrlOf(a) == IF a.headUrl = NoUrl THEN a.baseUrl ELSE a.headUrl

\* C19: in the command, headUrl defaults to baseUrl; the default of headRev
\* (the current branch) is resolved only after the base step (reuse, cache
\* or clone) has succeeded; the working tree is updated only after the pull
\* from headUrl restricted to headRev; and when the base step fails there is
\* no resolution of the default, no such pull and no update.
C19_SyncOrder ==
    args.entry = "main" =>
        /\ pc \in {"run_pull", "run_update"} =>
              /\ loc.cloneResult = "True"
              /\ loc.headUrl = HeadUrlOf(args)
              /\ loc.headRev # "None"
              /\ args.headRev # "None" => loc.headRev = args.headRev
        /\ (pc = "run_pull" /\ args.headRev = "None") => loc.headRev = hg_branch(dest)
        /\ (pc = "run_update" \/ "update" \in performed) =>
              /\ "pull_head" \in performed
              /\ loc.pulls[Len(loc.pulls)] = Pull(HeadUrlOf(args), loc.headRev)
        /\ loc.cloneResult # "True" =>
              /\ loc.headUrl = NoUrl /\ loc.headRev = "None"
              /\ performed \cap {"pull_head", "update"} = {}
              /\ pc \notin {"run_pull", "run_update"}

\* the command, given neither headUrl nor headRev, has pulled and updated
C19_Witness ==
    /\ MainSynced /\ args.headUrl = NoUrl /\ args.headRev = "None"
    /\ "update" \in performed /\ loc.headUrl = args.baseUrl

\* C20 as stated: every pull of a checkout is a pull from the head url (the
\* base url when none is given) restricted to the head revision: there is no
\* unrestricted pull and no pull from another source.
C20_PullsOnlyFromHead ==
    args.entry = "main" =>
        \A i \in 1..Len(loc.pulls) :
            /\ loc.pulls[i].source = HeadUrlOf(args)
            /\ loc.pulls[i].rev # "None"
            /\ args.headRev # "None" => loc.pulls[i].rev = args.headRev

\* C20 amended: a checkout performs at most two pulls: first clone() pulls,
\* with no restriction, from the default remote configured in the
\* destination, which is bound to the alias of the base url; only when that
\* pull succeeded the command pulls from the head url (the base url when
\* none is given) restricted to the head revision (the current branch when
\* none is given); there is no other pull.
C20_BasePullThenHeadPull ==
    args.entry = "main" =>
        /\ Len(loc.pulls) <= 2
        /\ Len(loc.pulls) >= 1 =>
              /\ loc.pulls[1] = Pull(NoUrl, "None")
              /\ BoundToAlias(dest)
        /\ Len(loc.pulls) = 2 =>
              /\ loc.cloneResult = "True"
              /\ loc.pulls[2].source = HeadUrlOf(args)
              /\ loc.pulls[2].rev = loc.headRev /\ loc.headRev # "None"
              /\ args.headRev # "None" => loc.pulls[2].rev = args.headRev
        /\ (Len(loc.pulls) >= 1 /\ loc.cloneResult = "False") =>
              (Len(loc.pulls) = 1 /\ pc \in {"run", "idle"})
        /\ Len(loc.pulls) = Cardinality(performed \cap {"pull", "pull_head"})

\* the command, given a head url that is not the base url, has pulled from
\* the remote of the destination and then from the head url
C20_Witness ==
    /\ MainSynced /\ Len(loc.pulls) = 2
    /\ args.baseUrl = RepoUrl /\ args.headUrl = OtherUrl /\ args.headRev = "r3"
    /\ dest.revs = {"r1", "r2", "r3"}

\* the download of the invocation failed in the loop, after the file at its
\* destination was opened for writing
FailedAfterOpen == loc.dlErr \in {"IOError:read", "IOError:write"}

\* C21: a download that fails or is interrupted after its file was opened
\* for writing leaves no partial file at its destination (the local cache
\* path, when use_cache_if_available calls it), and the file is not reported
\* as available: a file there is a completely downloaded archive.
C21_NoPartialFileLeft ==
    FailedAfterOpen =>
        /\ ~files[loc.out].exists
        /\ Ended({"download_file"}) => ret = Ret("False")

\* the command started with the destination absent and has ended with its
\* base step failed: clone() was left by an exception or returned false
BaseStepFailed ==
    Ended({"main"}) /\ AbsentAtEntry /\ loc.cloneResult # "True"

\* C22 as stated: when a command that started with the destination absent
\* fails in its base step, the destination is absent when the command ends.
C22_FailedCheckoutLeavesNoDest ==
    BaseStepFailed => ~dest.exists

\* C22 amended: the destination is left as the failing step left it: absent
\* when nothing was extracted or the file was rejected when opened, the
\* seeded tree when it is not bound to the alias or the pull of clone()
\* failed, and what was extracted or moved so far when the extraction or the
\* move of the entries failed.
C22_FailedCheckoutKeepsDest ==
    BaseStepFailed =>
        /\ "extract" \notin performed => (~dest.exists /\ ret.kind = "raise")
        /\ loc.seed.exists =>
              /\ dest = loc.seed
              /\ loc.cloneResult = "False" /\ ret = Ret("None")
        /\ ("extract" \in performed /\ ~loc.seed.exists) =>
              /\ ret \in {Raised("ReadError"), Raised("Error")}
              /\ ret = Raised("ReadError") => dest \in {NoDir, PlainDir}
              /\ ret = Raised("Error") =>
                    (dest.exists /\ TarWrapper(files[loc.path].data) \in dest.top)

\* the command has ended with the seeded tree of another repository in place
C22_Witness ==
    /\ BaseStepFailed /\ loc.seed.exists /\ dest.exists
    /\ dest.hgrc = OtherUrl /\ args.baseUrl = RepoUrl

\* process p found no local archive, and the index answered its lookup with
\* a task that holds the archive
RaceMissed(p) ==
    /\ args[p].entry = "use_cache_if_available"
    /\ "lookup" \in performed[p]
    /\ loc[p].lookup = "ok" /\ loc[p].body = "taskId"

\* process p is in download_file, or has been
RaceDownloads(p) ==
    pc[p] \in {"dl_open", "dl_create", "dl_loop", "dl_ret"} \/ "download" \in performed[p]

\* C23: the local cache is read, then written, with no lock: two invocations
\* for the same alias that both found no local archive and both resolved the
\* archive at the index both download it, to the same cache file.
C23_BothMissesDownload ==
    (\A p \in Procs : RaceMissed(p)) =>
        /\ \A p \in Procs : RaceDownloads(p) /\ loc[p].out = RacePath
        /\ \A p \in Procs : ret[p].kind # "raise"

====
